---- MODULE Spec2Model ----
(***************************************************************************)
(* WooCommerce and ACF tool handlers of wordpress-mcp                       *)
(* (src/tools/woocommerce.ts, src/tools/acf.ts).                            *)
(*                                                                         *)
(* Every handler is an async function with one suspension point, the       *)
(* awaited makeWordPressGenericRequest.  An invocation therefore has two    *)
(* steps: from the call to the await (or to the catch block, when the       *)
(* logger throws first), and from the settling of the request to the       *)
(* return of the envelope.                                                  *)
(***************************************************************************)
EXTENDS Integers, Sequences, FiniteSets, TLC

VARIABLES pc, tool, params, requests, outcome, caught, envelope, inflight

vars == <<pc, tool, params, requests, outcome, caught, envelope, inflight>>

(***************************************************************************)
(* JavaScript values.  A string is the sequence of its pieces (a piece is  *)
(* a character or an indivisible chunk of text), so the empty string is    *)
(* <<>>, concatenation is \o and startsWith looks at the first piece.      *)
(* An object is a function from property names (strings) to values.        *)
(***************************************************************************)
Undefined == [t |-> "undefined"]
Null == [t |-> "null"]
Bool(b) == [t |-> "bool", b |-> b]
Num(n) == [t |-> "num", n |-> n]
Str(s) == [t |-> "str", s |-> s]
Arr(a) == [t |-> "arr", a |-> a]
Obj(o) == [t |-> "obj", o |-> o]

\* The name of a property written as one piece.
K(name) == <<name>>

\* The empty object literal {}.
EmptyObject == Obj(<<>>)

\* No value yet (a variable of the model that has nothing to hold).
None == [t |-> "none"]

\* The outcome of evaluating code that may throw.
Ok(v) == [ok |-> TRUE, v |-> v]
Throw(e) == [ok |-> FALSE, e |-> e]

\* The TypeError the runtime throws on a property read of null/undefined or
\* on a call of something that is not a function.
TypeError == Obj(K("message") :> Str(<<"TypeError">>))

Nullish(v) == v.t \in {"undefined", "null"}

\* JavaScript truthiness, as `if (x)`, `x && y`, `x || y` and `x ? a : b` use it.
Truthy(v) ==
  CASE v.t \in {"undefined", "null"} -> FALSE
    [] v.t = "bool" -> v.b
    [] v.t = "num" -> v.n # 0
    [] v.t = "str" -> v.s # <<>>
    [] OTHER -> TRUE

\* a || b
Or(a, b) == IF Truthy(a) THEN a ELSE b

\* v[k] for a v that is not null/undefined: an own property or undefined.
Get(v, k) == IF v.t = "obj" /\ k \in DOMAIN v.o THEN v.o[k] ELSE Undefined

\* v?.[k]
OptGet(v, k) == IF Nullish(v) THEN Undefined ELSE Get(v, k)

IsArray(v) == v.t = "arr"

\* String(v), as a template literal's ${v} converts it.
ToStr(v) ==
  CASE v.t = "str" -> v.s
    [] v.t = "num" -> <<ToString(v.n)>>
    [] v.t = "bool" -> IF v.b THEN <<"true">> ELSE <<"false">>
    [] v.t = "undefined" -> <<"undefined">>
    [] v.t = "null" -> <<"null">>
    [] v.t = "arr" -> <<"[array]">>
    [] OTHER -> <<"[object Object]">>

\* s.startsWith(prefix) for a one-piece prefix.
StartsWith(s, prefix) == Len(s) > 0 /\ s[1] = prefix

(***************************************************************************)
(* JSON.stringify(v, null, 2): the JSON text is represented by the value   *)
(* it denotes.  A property whose value is undefined is left out of the     *)
(* text, an undefined array element is written as null, and                *)
(* stringify(undefined) is undefined rather than a text.                   *)
(***************************************************************************)
RECURSIVE JSONValue(_)
JSONValue(v) ==
  CASE v.t = "obj" ->
         Obj([k \in {j \in DOMAIN v.o : v.o[j].t # "undefined"} |-> JSONValue(v.o[k])])
    [] v.t = "arr" ->
         Arr([n \in 1..Len(v.a) |->
                IF v.a[n].t = "undefined" THEN Null ELSE JSONValue(v.a[n])])
    [] OTHER -> v

JSONstringify(v) ==
  IF v.t = "undefined" THEN Undefined ELSE [t |-> "json", v |-> JSONValue(v)]

(***************************************************************************)
(* The custom_meta loop of formatProductSummary and of the variation       *)
(* transform: for (const m of meta_data) if (m.key && !m.key.startsWith(   *)
(* '_')) meta[m.key] = m.value.  MetaLoop folds the list from the left;    *)
(* it throws when an element is null/undefined or its key is truthy but    *)
(* not a string.                                                           *)
(***************************************************************************)
\* KeepsKey without its prefix test.
KeepsKey_NoPrefixTest(key) == Truthy(key)

\* The test of the loop body on a key that is known not to throw.
KeepsKey(key) == Truthy(key) /\ ~StartsWith(key.s, "_")

\* MetaAssign that keeps a key's first value.
MetaAssign_FirstWins(meta, m) == meta @@ (Get(m, K("key")).s :> Get(m, K("value")))

\* meta[m.key] = m.value
MetaAssign(meta, m) == (Get(m, K("key")).s :> Get(m, K("value"))) @@ meta

RECURSIVE MetaLoop(_, _, _)
MetaLoop(list, n, meta) ==
  IF n > Len(list) THEN Ok(Obj(meta))
  ELSE LET m == list[n]
           key == OptGet(m, K("key")) IN
       IF Nullish(m) THEN Throw(TypeError)
       ELSE IF Truthy(key) /\ key.t # "str" THEN Throw(TypeError)
       ELSE IF KeepsKey(key) THEN MetaLoop(list, n + 1, MetaAssign(meta, m))
       ELSE MetaLoop(list, n + 1, meta)

\* const meta = {}; if (Array.isArray(x.meta_data)) { ...loop... }
custom_meta(item) ==
  LET md == Get(item, K("meta_data")) IN
  IF IsArray(md) THEN MetaLoop(md.a, 1, <<>>) ELSE Ok(EmptyObject)

(***************************************************************************)
(* formatProductSummary                                                     *)
(***************************************************************************)
\* The fields that are copied as `f: product.f`.
CopiedFields ==
  {"id", "name", "slug", "permalink", "type", "status", "sku",
   "price", "regular_price", "sale_price", "price_html", "on_sale",
   "description", "short_description", "weight", "dimensions",
   "stock_status", "stock_quantity", "manage_stock", "categories", "tags",
   "attributes", "variations", "average_rating", "rating_count",
   "total_sales", "related_ids", "upsell_ids", "cross_sell_ids",
   "date_created", "date_modified"}

\* Every key of the object literal that formatProductSummary returns.
ProductSummaryFields ==
  CopiedFields \cup {"images", "custom_meta", "meta_data_all", "acf"}

\* (img) => ({ id: img.id, src: img.src, name: img.name, alt: img.alt })
ImageSummary(img) ==
  Obj([k \in {K("id"), K("src"), K("name"), K("alt")} |-> Get(img, k)])

\* product.images?.map(...)
images(product) ==
  LET imgs == Get(product, K("images")) IN
  IF Nullish(imgs) THEN Ok(Undefined)
  ELSE IF ~IsArray(imgs) THEN Throw(TypeError)
  ELSE IF \E n \in 1..Len(imgs.a) : Nullish(imgs.a[n]) THEN Throw(TypeError)
  ELSE Ok(Arr([n \in 1..Len(imgs.a) |-> ImageSummary(imgs.a[n])]))

\* acf without its `|| null`.
acf_NoPlaceholder(product) == Get(product, K("acf"))

\* acf: product.acf || null
acf(product) == Or(Get(product, K("acf")), Null)

\* The value of one key of the returned object literal, the loop and the
\* images map having succeeded.
SummaryField(product, f, meta, imgs) ==
  CASE f = "custom_meta" -> meta
    [] f = "images" -> imgs
    [] f = "meta_data_all" -> Get(product, K("meta_data"))
    [] f = "acf" -> acf(product)
    [] OTHER -> Get(product, K(f))

formatProductSummary(product) ==
  IF Nullish(product) THEN Throw(TypeError)
  ELSE LET meta == custom_meta(product)
           imgs == images(product) IN
       IF ~meta.ok THEN meta
       ELSE IF ~imgs.ok THEN imgs
       ELSE Ok(Obj([k \in {K(f) : f \in ProductSummaryFields} |->
                      SummaryField(product, k[1], meta.v, imgs.v)]))

\* The keys of the object literal that the variation transform returns.
VariationFields ==
  {"id", "sku", "price", "regular_price", "sale_price", "on_sale",
   "stock_status", "stock_quantity", "weight", "dimensions", "attributes",
   "image", "custom_meta", "meta_data_all"}

VariationField(v, f, meta) ==
  CASE f = "custom_meta" -> meta
    [] f = "meta_data_all" -> Get(v, K("meta_data"))
    [] OTHER -> Get(v, K(f))

\* The arrow function mapped over the variations array.
formatVariation(v) ==
  IF Nullish(v) THEN Throw(TypeError)
  ELSE LET meta == custom_meta(v) IN
       IF ~meta.ok THEN meta
       ELSE Ok(Obj([k \in {K(f) : f \in VariationFields} |->
                      VariationField(v, k[1], meta.v)]))

\* (item) => ({ id: item.id, acf: item.acf || item })
formatAcfItem(item) ==
  IF Nullish(item) THEN Throw(TypeError)
  ELSE Ok(Obj((K("id") :> Get(item, K("id")))
              @@ (K("acf") :> Or(Get(item, K("acf")), item))))

\* The elements that response.map visits (none when response is no array).
Elements(response) == IF IsArray(response) THEN response.a ELSE <<>>

\* The outcomes of `results` that are not throws, in order.
RECURSIVE Completed(_)
Completed(results) ==
  IF results = <<>> THEN <<>>
  ELSE (IF results[1].ok THEN <<results[1].v>> ELSE <<>>) \o Completed(Tail(results))

\* MapOrPass that skips the elements its callback fails on.
MapOrPass_SkipsFailed(response, results) ==
  IF ~IsArray(response) THEN Ok(response) ELSE Ok(Arr(Completed(results)))

\* Array.isArray(response) ? response.map(f) : response, where f may throw.
\* results[n] is the outcome of f on the n-th element.
MapOrPass(response, results) ==
  IF ~IsArray(response) THEN Ok(response)
  ELSE IF \E n \in 1..Len(results) : ~results[n].ok THEN Throw(TypeError)
  ELSE Ok(Arr([n \in 1..Len(results) |-> results[n].v]))

\* Array.isArray(x) ? x.length : 0
CountOf(x) == Num(IF IsArray(x) THEN Len(x.a) ELSE 0)

\* response?.acf || response
AcfOrResponse(response) == Or(OptGet(response, K("acf")), response)

\* getAcfEndpointBase: endpointMap[contentType] || contentType
getAcfEndpointBase(contentType) ==
  CASE contentType = Str(<<"post">>) -> Str(<<"posts">>)
    [] contentType = Str(<<"page">>) -> Str(<<"pages">>)
    [] OTHER -> contentType

(***************************************************************************)
(* The envelope and the parts every handler is made of                      *)
(***************************************************************************)
\* { toolResult: { content: [{ type: 'text', text }], isError } }
Envelope(text, isError) ==
  [toolResult |-> [content |-> <<[type |-> "text", text |-> text]>>,
                   isError |-> isError]]

\* The arguments of one makeWordPressGenericRequest call; data is Undefined
\* when the third argument is not passed.
Request(method, path, data) == [method |-> method, path |-> path, data |-> data]

\* error.response?.status, for an error that is not null/undefined.
StatusOf(error) == OptGet(Get(error, K("response")), K("status"))

\* CatchBlock that leaves isError false.
CatchBlock_NotFlagged(action, error, hint) ==
  IF Nullish(error) THEN Throw(TypeError)
  ELSE Ok(Envelope(Str(<<action>> \o ToStr(Get(error, K("message"))) \o hint), FALSE))

\* A catch block: it reads error.message (and, in acf.ts, error.response
\* first) of whatever was thrown, which throws a TypeError itself when the
\* thrown value is null or undefined.
CatchBlock(action, error, hint) ==
  IF Nullish(error) THEN Throw(TypeError)
  ELSE Ok(Envelope(Str(<<action>> \o ToStr(Get(error, K("message"))) \o hint), TRUE))

\* The return statement of a try block whose payload was computed.
Success(payload) ==
  IF payload.ok THEN Ok(Envelope(JSONstringify(payload.v), FALSE)) ELSE payload

\* `${cond ? text : ''}`
HintIf(cond, text) == IF cond THEN <<text>> ELSE <<>>

(***************************************************************************)
(* woocommerce.ts handlers: the request each builds, its try block after    *)
(* the await, and its catch block.                                          *)
(***************************************************************************)
WOO_LIST_401 == "\n\nAuthentication failed. WooCommerce REST API may require separate consumer key/secret. Set WOO_CONSUMER_KEY and WOO_CONSUMER_SECRET environment variables, or ensure your WordPress user has shop_manager/admin role."
WOO_LIST_404 == "\n\nWooCommerce REST API not found. Ensure WooCommerce plugin is installed and activated."
WOO_GET_404 == "\n\nProduct not found or WooCommerce REST API not available."

list_woo_products_request(p) == Request("GET", Str(<<"wc/v3/products">>), p)

list_woo_products_try(p, response) ==
  Success(MapOrPass(response,
            [n \in 1..Len(Elements(response)) |-> formatProductSummary(Elements(response)[n])]))

list_woo_products_hint(status) ==
  HintIf(status = Num(401), WOO_LIST_401) \o HintIf(status = Num(404), WOO_LIST_404)

list_woo_products_catch(error) ==
  CatchBlock("Error listing WooCommerce products: ", error,
             list_woo_products_hint(StatusOf(error)))

get_woo_product_request(p) ==
  Request("GET", Str(<<"wc/v3/products/">> \o ToStr(Get(p, K("id")))), Undefined)

get_woo_product_try(p, response) == Success(formatProductSummary(response))

get_woo_product_hint(status) == HintIf(status = Num(404), WOO_GET_404)

get_woo_product_catch(error) ==
  CatchBlock("Error getting WooCommerce product: ", error,
             get_woo_product_hint(StatusOf(error)))

\* const queryParams = {}; if (params.page) ...; if (params.per_page) ...
get_woo_product_variations_query(p) ==
  Obj([k \in {j \in {K("page"), K("per_page")} : Truthy(Get(p, j))} |-> Get(p, k)])

get_woo_product_variations_request(p) ==
  Request("GET",
          Str(<<"wc/v3/products/">> \o ToStr(Get(p, K("product_id"))) \o <<"/variations">>),
          get_woo_product_variations_query(p))

get_woo_product_variations_try(p, response) ==
  LET variations == MapOrPass(response,
            [n \in 1..Len(Elements(response)) |-> formatVariation(Elements(response)[n])]) IN
  IF ~variations.ok THEN variations
  ELSE Success(Ok(Obj((K("product_id") :> Get(p, K("product_id")))
                      @@ (K("variations_count") :> CountOf(variations.v))
                      @@ (K("variations") :> variations.v))))

get_woo_product_variations_hint(status) == <<>>

get_woo_product_variations_catch(error) ==
  CatchBlock("Error getting product variations: ", error,
             get_woo_product_variations_hint(StatusOf(error)))

\* { search: params.search, per_page: params.per_page || 10 }
search_woo_products_query(p) ==
  Obj((K("search") :> Get(p, K("search")))
      @@ (K("per_page") :> Or(Get(p, K("per_page")), Num(10))))

search_woo_products_request(p) ==
  Request("GET", Str(<<"wc/v3/products">>), search_woo_products_query(p))

search_woo_products_try(p, response) ==
  LET products == MapOrPass(response,
            [n \in 1..Len(Elements(response)) |-> formatProductSummary(Elements(response)[n])]) IN
  IF ~products.ok THEN products
  ELSE Success(Ok(Obj((K("search_term") :> Get(p, K("search")))
                      @@ (K("results_count") :> CountOf(products.v))
                      @@ (K("products") :> products.v))))

search_woo_products_hint(status) == <<>>

search_woo_products_catch(error) ==
  CatchBlock("Error searching WooCommerce products: ", error,
             search_woo_products_hint(StatusOf(error)))

(***************************************************************************)
(* acf.ts handlers.  The hint texts are the source's, with its two         *)
(* non-ASCII characters (an arrow and a dash) written in ASCII.            *)
(***************************************************************************)
ACF_GET_404 == "\n\nACF REST API endpoint not found. Possible causes:\n1. ACF plugin is not installed or activated\n2. ACF REST API is not enabled (ACF -> Settings -> Enable REST API)\n3. The content type or ID does not exist\n\nAlternative: Use get_content with content_type parameter - ACF fields may appear in the \"acf\" key if ACF REST support is enabled globally."
ACF_GET_401_403 == "\n\nAuthentication/permission error. Ensure the WordPress user has permission to read ACF fields."
ACF_UPDATE_404 == "\n\nACF REST API endpoint not found. Ensure ACF plugin is installed and REST API is enabled."
ACF_UPDATE_401_403 == "\n\nPermission denied. Ensure the WordPress user has edit permissions for this content."
ACF_OPTIONS_404 == "\n\nACF Options page REST endpoint not found. Ensure:\n1. ACF Pro is installed (Options pages require ACF Pro)\n2. Options page has been registered\n3. ACF REST API is enabled"

\* `acf/v3/${base}/${params.id}`
AcfItemPath(p) ==
  Str(<<"acf/v3/">> \o ToStr(getAcfEndpointBase(Get(p, K("content_type"))))
      \o <<"/">> \o ToStr(Get(p, K("id"))))

\* AcfHint whose second branch lost its condition.
AcfHint_NoElseIf(status, text404, text401) ==
  IF status = Num(404) THEN <<text404>> ELSE <<text401>>

\* let hint = ''; if (status === 404) ... else if (status === 401 || status === 403) ...
AcfHint(status, text404, text401) ==
  IF status = Num(404) THEN <<text404>>
  ELSE IF status = Num(401) \/ status = Num(403) THEN <<text401>>
  ELSE <<>>

get_acf_fields_request(p) == Request("GET", AcfItemPath(p), Undefined)

get_acf_fields_try(p, response) ==
  Success(Ok(Obj((K("content_type") :> Get(p, K("content_type")))
                 @@ (K("content_id") :> Get(p, K("id")))
                 @@ (K("acf_fields") :> AcfOrResponse(response)))))

get_acf_fields_hint(status) == AcfHint(status, ACF_GET_404, ACF_GET_401_403)

get_acf_fields_catch(error) ==
  CatchBlock("Error getting ACF fields: ", error, get_acf_fields_hint(StatusOf(error)))

update_acf_fields_request(p) ==
  Request("PUT", AcfItemPath(p), Obj(K("acf") :> Get(p, K("fields"))))

update_acf_fields_try(p, response) ==
  Success(Ok(Obj((K("content_type") :> Get(p, K("content_type")))
                 @@ (K("content_id") :> Get(p, K("id")))
                 @@ (K("updated") :> Bool(TRUE))
                 @@ (K("acf_fields") :> AcfOrResponse(response)))))

update_acf_fields_hint(status) == AcfHint(status, ACF_UPDATE_404, ACF_UPDATE_401_403)

update_acf_fields_catch(error) ==
  CatchBlock("Error updating ACF fields: ", error, update_acf_fields_hint(StatusOf(error)))

\* params.field_name ? `acf/v3/options/${params.field_name}` : 'acf/v3/options'
get_acf_options_endpoint(p) ==
  LET field_name == Get(p, K("field_name")) IN
  IF Truthy(field_name) THEN Str(<<"acf/v3/options/">> \o ToStr(field_name))
  ELSE Str(<<"acf/v3/options">>)

get_acf_options_request(p) == Request("GET", get_acf_options_endpoint(p), Undefined)

get_acf_options_try(p, response) ==
  Success(Ok(Obj((K("field_name") :> Or(Get(p, K("field_name")), Str(<<"(all options)">>)))
                 @@ (K("options") :> AcfOrResponse(response)))))

get_acf_options_hint(status) == HintIf(status = Num(404), ACF_OPTIONS_404)

get_acf_options_catch(error) ==
  CatchBlock("Error getting ACF options: ", error, get_acf_options_hint(StatusOf(error)))

\* list_acf_content_fields_query with the page default off by one.
list_acf_content_fields_query_PageZero(p) ==
  Obj((K("per_page") :> Or(Get(p, K("per_page")), Num(10)))
      @@ (K("page") :> Or(Get(p, K("page")), Num(0))))

\* { per_page: params.per_page || 10, page: params.page || 1 }
list_acf_content_fields_query(p) ==
  Obj((K("per_page") :> Or(Get(p, K("per_page")), Num(10)))
      @@ (K("page") :> Or(Get(p, K("page")), Num(1))))

list_acf_content_fields_request(p) ==
  Request("GET",
          Str(<<"acf/v3/">> \o ToStr(getAcfEndpointBase(Get(p, K("content_type"))))),
          list_acf_content_fields_query(p))

list_acf_content_fields_try(p, response) ==
  LET items == MapOrPass(response,
            [n \in 1..Len(Elements(response)) |-> formatAcfItem(Elements(response)[n])])
      queryParams == list_acf_content_fields_query(p) IN
  IF ~items.ok THEN items
  ELSE Success(Ok(Obj((K("content_type") :> Get(p, K("content_type")))
                      @@ (K("page") :> Get(queryParams, K("page")))
                      @@ (K("per_page") :> Get(queryParams, K("per_page")))
                      @@ (K("items_count") :> CountOf(items.v))
                      @@ (K("items") :> items.v))))

list_acf_content_fields_hint(status) == <<>>

list_acf_content_fields_catch(error) ==
  CatchBlock("Error listing ACF content fields: ", error,
             list_acf_content_fields_hint(StatusOf(error)))

(***************************************************************************)
(* The zod schemas.  parse accepts an object whose declared fields have    *)
(* the declared types; an optional field may be absent (undefined).        *)
(***************************************************************************)
PER_PAGE_MIN == 1
PER_PAGE_MAX == 100

IsNumber(v) == v.t = "num"
IsString(v) == v.t = "str"
OptNumber(v) == v = Undefined \/ IsNumber(v)
OptString(v) == v = Undefined \/ IsString(v)
OptBoolean(v) == v = Undefined \/ v.t = "bool"
OptEnum(v, values) == v = Undefined \/ (IsString(v) /\ v.s \in {K(x) : x \in values})
\* z.number().min(1).max(100).optional()
OptPerPage(v) ==
  v = Undefined \/ (IsNumber(v) /\ v.n >= PER_PAGE_MIN /\ v.n <= PER_PAGE_MAX)

listWooProductsSchema(p) ==
  /\ p.t = "obj"
  /\ OptNumber(Get(p, K("page")))
  /\ OptPerPage(Get(p, K("per_page")))
  /\ \A f \in {"search", "sku", "slug", "status", "category", "tag",
               "min_price", "max_price", "orderby"} : OptString(Get(p, K(f)))
  /\ OptEnum(Get(p, K("type")), {"simple", "grouped", "external", "variable"})
  /\ OptBoolean(Get(p, K("featured")))
  /\ OptBoolean(Get(p, K("on_sale")))
  /\ OptEnum(Get(p, K("stock_status")), {"instock", "outofstock", "onbackorder"})
  /\ OptEnum(Get(p, K("order")), {"asc", "desc"})

getWooProductSchema(p) == p.t = "obj" /\ IsNumber(Get(p, K("id")))

getWooProductVariationsSchema(p) ==
  /\ p.t = "obj"
  /\ IsNumber(Get(p, K("product_id")))
  /\ OptNumber(Get(p, K("page")))
  /\ OptPerPage(Get(p, K("per_page")))

searchWooProductsSchema(p) ==
  p.t = "obj" /\ IsString(Get(p, K("search"))) /\ OptPerPage(Get(p, K("per_page")))

getAcfFieldsSchema(p) ==
  p.t = "obj" /\ IsString(Get(p, K("content_type"))) /\ IsNumber(Get(p, K("id")))

updateAcfFieldsSchema(p) ==
  /\ p.t = "obj"
  /\ IsString(Get(p, K("content_type")))
  /\ IsNumber(Get(p, K("id")))
  /\ Get(p, K("fields")).t = "obj"

getAcfOptionsSchema(p) == p.t = "obj" /\ OptString(Get(p, K("field_name")))

listAcfContentFieldsSchema(p) ==
  /\ p.t = "obj"
  /\ IsString(Get(p, K("content_type")))
  /\ OptPerPage(Get(p, K("per_page")))
  /\ OptNumber(Get(p, K("page")))

(***************************************************************************)
(* The handler tables (wooCommerceHandlers, acfHandlers; index.ts merges   *)
(* them into toolHandlers) and each tool's declared schema.                *)
(***************************************************************************)
wooCommerceHandlers ==
  {"list_woo_products", "get_woo_product", "get_woo_product_variations",
   "search_woo_products"}

acfHandlers ==
  {"get_acf_fields", "update_acf_fields", "get_acf_options",
   "list_acf_content_fields"}

toolHandlers == wooCommerceHandlers \cup acfHandlers

SchemaOf(name, p) ==
  CASE name = "list_woo_products" -> listWooProductsSchema(p)
    [] name = "get_woo_product" -> getWooProductSchema(p)
    [] name = "get_woo_product_variations" -> getWooProductVariationsSchema(p)
    [] name = "search_woo_products" -> searchWooProductsSchema(p)
    [] name = "get_acf_fields" -> getAcfFieldsSchema(p)
    [] name = "update_acf_fields" -> updateAcfFieldsSchema(p)
    [] name = "get_acf_options" -> getAcfOptionsSchema(p)
    [] name = "list_acf_content_fields" -> listAcfContentFieldsSchema(p)

RequestOf(name, p) ==
  CASE name = "list_woo_products" -> list_woo_products_request(p)
    [] name = "get_woo_product" -> get_woo_product_request(p)
    [] name = "get_woo_product_variations" -> get_woo_product_variations_request(p)
    [] name = "search_woo_products" -> search_woo_products_request(p)
    [] name = "get_acf_fields" -> get_acf_fields_request(p)
    [] name = "update_acf_fields" -> update_acf_fields_request(p)
    [] name = "get_acf_options" -> get_acf_options_request(p)
    [] name = "list_acf_content_fields" -> list_acf_content_fields_request(p)

TryOf(name, p, response) ==
  CASE name = "list_woo_products" -> list_woo_products_try(p, response)
    [] name = "get_woo_product" -> get_woo_product_try(p, response)
    [] name = "get_woo_product_variations" -> get_woo_product_variations_try(p, response)
    [] name = "search_woo_products" -> search_woo_products_try(p, response)
    [] name = "get_acf_fields" -> get_acf_fields_try(p, response)
    [] name = "update_acf_fields" -> update_acf_fields_try(p, response)
    [] name = "get_acf_options" -> get_acf_options_try(p, response)
    [] name = "list_acf_content_fields" -> list_acf_content_fields_try(p, response)

CatchOf(name, error) ==
  CASE name = "list_woo_products" -> list_woo_products_catch(error)
    [] name = "get_woo_product" -> get_woo_product_catch(error)
    [] name = "get_woo_product_variations" -> get_woo_product_variations_catch(error)
    [] name = "search_woo_products" -> search_woo_products_catch(error)
    [] name = "get_acf_fields" -> get_acf_fields_catch(error)
    [] name = "update_acf_fields" -> update_acf_fields_catch(error)
    [] name = "get_acf_options" -> get_acf_options_catch(error)
    [] name = "list_acf_content_fields" -> list_acf_content_fields_catch(error)

(***************************************************************************)
(* Inputs: what callers pass, what the upstream returns or throws, and     *)
(* whether the logger throws.                                               *)
(***************************************************************************)
\* The longest array the upstream returns.
MaxItems == 2
\* The longest meta_data list of the meta-data specification.
MaxMeta == 3

\* The object whose properties are the fields of r that are not Undefined.
Pack(r) ==
  Obj([k \in {K(f) : f \in {g \in DOMAIN r : r[g] # Undefined}} |-> r[k[1]]])

\* Every sequence over S of length at most n.
SeqsUpTo(S, n) == UNION {[1..m -> S] : m \in 0..n}

S1(x) == Str(<<x>>)

\* An Error with a message and, when status is a number, response.status.
HttpError(message, status) ==
  IF status = Undefined THEN Obj(K("message") :> S1(message))
  ELSE Obj((K("message") :> S1(message))
           @@ (K("response") :> Obj(K("status") :> status)))

\* What makeWordPressGenericRequest may throw: errors with and without a
\* status, a thrown string, and a rejection with no reason at all.
Thrown ==
  {HttpError("Request failed", st) :
     st \in {Undefined, Num(401), Num(403), Num(404), Num(500)}}
  \cup {HttpError("ECONNREFUSED", Undefined), S1("boom"), Undefined, Null}

\* logToFile returns (None) or throws.
LoggerOutcomes == {None, HttpError("EACCES", Undefined)}

ParamsFor(name) ==
  CASE name = "list_woo_products" ->
         {Pack(r) : r \in
            [page : {Undefined}, per_page : {Undefined, Num(0), Num(1), Num(100), Num(101)},
             type : {Undefined}, stock_status : {Undefined}, order : {Undefined},
             search : {Undefined}]
            \cup [page : {Undefined, Num(2), S1("2")}, per_page : {Undefined},
                  type : {Undefined, S1("simple"), S1("bundle")},
                  stock_status : {Undefined}, order : {Undefined},
                  search : {Undefined, S1("soap")}]
            \cup [page : {Undefined}, per_page : {Undefined, Num(20)},
                  type : {Undefined},
                  stock_status : {Undefined, S1("instock"), S1("sold")},
                  order : {Undefined, S1("asc"), S1("up")}, search : {Undefined}]}
    [] name = "get_woo_product" ->
         {Pack(r) : r \in [id : {Undefined, Num(5), S1("5")}]}
    [] name = "get_woo_product_variations" ->
         {Pack(r) : r \in
            [product_id : {Undefined, Num(42)}, page : {Undefined, Num(0), Num(2)},
             per_page : {Undefined, Num(0), Num(50), Num(101)}]}
    [] name = "search_woo_products" ->
         {Pack(r) : r \in
            [search : {Undefined, Str(<<>>), S1("soap")},
             per_page : {Undefined, Num(0), Num(5), Num(101)}]}
    [] name = "get_acf_fields" ->
         {Pack(r) : r \in
            [content_type : {Undefined, S1("post"), S1("page"), S1("product")},
             id : {Undefined, Num(7)}]}
    [] name = "update_acf_fields" ->
         {Pack(r) : r \in
            [content_type : {S1("post"), S1("product")}, id : {Num(7), S1("7")},
             fields : {Undefined, S1("volume"), Obj(K("volume") :> S1("100ml"))}]}
    [] name = "get_acf_options" ->
         {Pack(r) : r \in [field_name : {Undefined, Str(<<>>), S1("pricing"), Num(3)}]}
    [] name = "list_acf_content_fields" ->
         {Pack(r) : r \in
            [content_type : {Undefined, S1("product")},
             per_page : {Undefined, Num(0), Num(25), Num(101)},
             page : {Undefined, Num(0), Num(3)}]}

MetaEntry(key, value) == Obj((K("key") :> Str(key)) @@ (K("value") :> value))

\* An error body, as the upstream sends it where an array was expected.
ErrorBody == Obj((K("code") :> S1("rest_no_route")) @@ (K("message") :> S1("No route")))

AcfBlob == Obj(K("volume") :> S1("100ml"))

SampleImage == Obj((K("id") :> Num(9)) @@ (K("src") :> S1("soap.png")))

SampleMeta ==
  Arr(<<MetaEntry(<<"_", "internal">>, S1("x")), MetaEntry(<<"volume">>, S1("100ml"))>>)

\* Upstream product objects: each field present or absent.
SampleProducts ==
  {Pack(r) : r \in
     [id : {Undefined, Num(5)}, name : {Undefined, S1("Soap"), Null},
      acf : {Undefined, Bool(FALSE), AcfBlob},
      images : {Undefined, Null, Arr(<<SampleImage>>), S1("none")},
      meta_data : {Undefined, SampleMeta, ErrorBody, Arr(<<Null>>)}]}

\* The elements of upstream arrays.
ListItems ==
  {Pack([id |-> Num(5), name |-> S1("Soap"), acf |-> AcfBlob, meta_data |-> SampleMeta]),
   Pack([id |-> Num(6), sku |-> S1("S-6")]),
   Null}

\* What the upstream returns to a list request: an array or something else.
ListResponses == {Arr(a) : a \in SeqsUpTo(ListItems, MaxItems)} \cup {ErrorBody, Null}

AcfResponses ==
  {Obj(K("acf") :> AcfBlob), Obj(K("acf") :> Bool(FALSE)), EmptyObject, Null, Undefined}

ResponsesFor(name) ==
  CASE name = "get_woo_product" -> SampleProducts \cup {Null}
    [] name \in {"list_woo_products", "search_woo_products",
                 "get_woo_product_variations", "list_acf_content_fields"} -> ListResponses
    [] OTHER -> AcfResponses

\* How the awaited request settles.
UpstreamOutcomes(name) ==
  {Ok(r) : r \in ResponsesFor(name)} \cup {Throw(e) : e \in Thrown}

(***************************************************************************)
(* Invocations.  pc[i] is where invocation i stands: "idle" (not called),  *)
(* "awaiting" (suspended at its await), "returned" (its promise resolved   *)
(* with envelope[i]) or "raised" (its promise rejected: the exception left *)
(* the handler).  requests[i] lists the requests it has issued, outcome[i] *)
(* is how its request settled and caught[i] the value its catch block      *)
(* received.  inflight[i] is a record of the run, not state of the         *)
(* program: the other invocations that were suspended at their await when  *)
(* invocation i was resumed.                                               *)
(***************************************************************************)
Invocations == DOMAIN pc

InitOver(ids) ==
  /\ pc = [i \in ids |-> "idle"]
  /\ tool = [i \in ids |-> "none"]
  /\ params = [i \in ids |-> None]
  /\ requests = [i \in ids |-> <<>>]
  /\ outcome = [i \in ids |-> None]
  /\ caught = [i \in ids |-> None]
  /\ envelope = [i \in ids |-> None]
  /\ inflight = [i \in ids |-> {}]

Init == InitOver({1})

\* Control reaches the catch block of handler `name` with `error`.
Catch(i, name, error) ==
  LET r == CatchOf(name, error) IN
  /\ caught' = [caught EXCEPT ![i] = error]
  /\ IF r.ok
       THEN /\ envelope' = [envelope EXCEPT ![i] = r.v]
            /\ pc' = [pc EXCEPT ![i] = "returned"]
       ELSE /\ pc' = [pc EXCEPT ![i] = "raised"]
            /\ UNCHANGED envelope

\* Begin that issues its request twice.
Begin_Twice(i, name, p, logged) ==
  /\ pc[i] = "idle"
  /\ tool' = [tool EXCEPT ![i] = name]
  /\ params' = [params EXCEPT ![i] = p]
  /\ UNCHANGED <<outcome, inflight>>
  /\ IF logged = None
       THEN /\ requests' = [requests EXCEPT ![i] =
                              Append(Append(@, RequestOf(name, p)), RequestOf(name, p))]
            /\ pc' = [pc EXCEPT ![i] = "awaiting"]
            /\ UNCHANGED <<caught, envelope>>
       ELSE /\ Catch(i, name, logged)
            /\ UNCHANGED requests

\* The handler is called with p and runs to its await: it logs, builds the
\* request and issues it.  When logToFile throws, control goes to the catch
\* block before any request is issued.
Begin(i, name, p, logged) ==
  /\ pc[i] = "idle"
  /\ tool' = [tool EXCEPT ![i] = name]
  /\ params' = [params EXCEPT ![i] = p]
  /\ UNCHANGED <<outcome, inflight>>
  /\ IF logged = None
       THEN /\ requests' = [requests EXCEPT ![i] = Append(@, RequestOf(name, p))]
            /\ pc' = [pc EXCEPT ![i] = "awaiting"]
            /\ UNCHANGED <<caught, envelope>>
       ELSE /\ Catch(i, name, logged)
            /\ UNCHANGED requests

\* Settle of a handler that keeps its params in a variable of the module,
\* which holds those of the latest call still in flight.
Settle_SharedParams(i, name, o) ==
  /\ pc[i] = "awaiting"
  /\ tool[i] = name
  /\ outcome' = [outcome EXCEPT ![i] = o]
  /\ inflight' = [inflight EXCEPT ![i] = {j \in DOMAIN pc \ {i} : pc[j] = "awaiting"}]
  /\ UNCHANGED <<tool, params, requests>>
  /\ LET shared == CHOOSE j \in DOMAIN pc :
                     /\ pc[j] = "awaiting"
                     /\ \A k \in DOMAIN pc : pc[k] = "awaiting" => k <= j
         r == IF o.ok THEN TryOf(name, params[shared], o.v) ELSE o IN
     IF r.ok
       THEN /\ envelope' = [envelope EXCEPT ![i] = r.v]
            /\ pc' = [pc EXCEPT ![i] = "returned"]
            /\ UNCHANGED caught
       ELSE Catch(i, name, r.e)

\* The awaited request settles with o and the handler runs to its end.
Settle(i, name, o) ==
  /\ pc[i] = "awaiting"
  /\ tool[i] = name
  /\ outcome' = [outcome EXCEPT ![i] = o]
  /\ inflight' = [inflight EXCEPT ![i] = {j \in DOMAIN pc \ {i} : pc[j] = "awaiting"}]
  /\ UNCHANGED <<tool, params, requests>>
  /\ LET r == IF o.ok THEN TryOf(name, params[i], o.v) ELSE o IN
     IF r.ok
       THEN /\ envelope' = [envelope EXCEPT ![i] = r.v]
            /\ pc' = [pc EXCEPT ![i] = "returned"]
            /\ UNCHANGED caught
       ELSE Catch(i, name, r.e)

Handler(i, name) ==
  \/ \E p \in ParamsFor(name), logged \in LoggerOutcomes : Begin(i, name, p, logged)
  \/ \E o \in UpstreamOutcomes(name) : Settle(i, name, o)

list_woo_products(i) == Handler(i, "list_woo_products")
get_woo_product(i) == Handler(i, "get_woo_product")
get_woo_product_variations(i) == Handler(i, "get_woo_product_variations")
search_woo_products(i) == Handler(i, "search_woo_products")
get_acf_fields(i) == Handler(i, "get_acf_fields")
update_acf_fields(i) == Handler(i, "update_acf_fields")
get_acf_options(i) == Handler(i, "get_acf_options")
list_acf_content_fields(i) == Handler(i, "list_acf_content_fields")

\* The one invocation of the sequential specification.
Single == {1}

Next ==
  \E i \in Single :
    \/ list_woo_products(i)
    \/ get_woo_product(i)
    \/ get_woo_product_variations(i)
    \/ search_woo_products(i)
    \/ get_acf_fields(i)
    \/ update_acf_fields(i)
    \/ get_acf_options(i)
    \/ list_acf_content_fields(i)

Spec == Init /\ [][Next]_vars

(***************************************************************************)
(* The meta-data specification: the two handlers that hold the custom_meta *)
(* loop, called with valid parameters and answered with items whose        *)
(* meta_data ranges over every list of {key, value} entries up to MaxMeta  *)
(* long: keys that are empty, that are or start with '_', that contain '_' *)
(* further on, and ordinary ones, with repetitions.                        *)
(***************************************************************************)
MetaKeys == {<<>>, <<"_">>, <<"_", "a">>, <<"a">>, <<"a", "_">>}
MetaValues == {S1("x"), S1("y")}
MetaEntries == {MetaEntry(k, v) : k \in MetaKeys, v \in MetaValues}
MetaLists == {Arr(a) : a \in SeqsUpTo(MetaEntries, MaxMeta)}
MetaItems == {Pack([id |-> Num(5), meta_data |-> m]) : m \in MetaLists}

\* A second variation, to sit beside the one whose meta_data varies.
OtherVariation ==
  Pack([id |-> Num(6), meta_data |-> Arr(<<MetaEntry(<<"a">>, S1("z"))>>)])

get_woo_product_meta(i) ==
  \/ Begin(i, "get_woo_product", Pack([id |-> Num(5)]), None)
  \/ \E item \in MetaItems : Settle(i, "get_woo_product", Ok(item))

get_woo_product_variations_meta(i) ==
  \/ Begin(i, "get_woo_product_variations", Pack([product_id |-> Num(42)]), None)
  \/ \E item \in MetaItems :
       Settle(i, "get_woo_product_variations", Ok(Arr(<<item, OtherVariation>>)))

NextMeta ==
  \E i \in Single :
    \/ get_woo_product_meta(i)
    \/ get_woo_product_variations_meta(i)

SpecMeta == Init /\ [][NextMeta]_vars

(***************************************************************************)
(* The concurrent specification: NConc invocations of any of the handlers, *)
(* begun and resumed in any order.  The hosting process may call a handler *)
(* while others are suspended at their await, and the awaited requests     *)
(* settle in any order.  Each handler is called with parameters its schema *)
(* accepts and its request is answered or fails.                           *)
(***************************************************************************)
\* The number of invocations in flight.
NConc == 2

ConcParams(name) ==
  CASE name = "list_woo_products" -> {Pack([search |-> S1("soap")])}
    [] name = "get_woo_product" -> {Pack([id |-> Num(5)])}
    [] name = "get_woo_product_variations" -> {Pack([product_id |-> Num(42)])}
    [] name = "search_woo_products" -> {Pack([search |-> S1("soap")])}
    [] name = "get_acf_fields" -> {Pack([content_type |-> S1("post"), id |-> Num(7)])}
    [] name = "update_acf_fields" ->
         {Pack([content_type |-> S1("product"), id |-> Num(7), fields |-> AcfBlob])}
    [] name = "get_acf_options" -> {Pack([field_name |-> S1("pricing")])}
    [] name = "list_acf_content_fields" -> {Pack([content_type |-> S1("product")])}

ConcResponse(name) ==
  CASE name = "get_woo_product" -> Pack([id |-> Num(5), meta_data |-> SampleMeta])
    [] name \in {"get_acf_fields", "update_acf_fields", "get_acf_options"} ->
         Obj(K("acf") :> AcfBlob)
    [] OTHER -> Arr(<<Pack([id |-> Num(6), sku |-> S1("S-6")])>>)

ConcOutcomes(name) ==
  {Ok(ConcResponse(name)), Throw(HttpError("Request failed", Num(404)))}

HandlerConc(i, name) ==
  \/ \E p \in ConcParams(name) : Begin(i, name, p, None)
  \/ \E o \in ConcOutcomes(name) : Settle(i, name, o)

InitConc == InitOver(1..NConc)

NextConc == \E i \in 1..NConc : \E name \in toolHandlers : HandlerConc(i, name)

SpecConc == InitConc /\ [][NextConc]_vars

(***************************************************************************)
(* Properties                                                               *)
(***************************************************************************)
Returned(i) == pc[i] = "returned"
Finished(i) == pc[i] \in {"returned", "raised"}
Content(i) == envelope[i].toolResult.content
Text(i) == Content(i)[1].text
IsError(i) == envelope[i].toolResult.isError
Succeeded(i) == Returned(i) /\ ~IsError(i)
\* The value the JSON text of a success envelope denotes.
Payload(i) == Text(i).v
Issued(i) == requests[i] # <<>>
Query(i) == requests[i][1].data
\* The upstream threw e, an Error object with a string message.
UpstreamThrewError(i) ==
  /\ outcome[i] # None
  /\ ~outcome[i].ok
  /\ outcome[i].e.t = "obj"
  /\ Get(outcome[i].e, K("message")).t = "str"
UpstreamStatus(i) == IF UpstreamThrewError(i) THEN StatusOf(outcome[i].e) ELSE Undefined
\* text is a message one of whose pieces is in `pieces`.
Contains(text, pieces) == text.t = "str" /\ \E n \in 1..Len(text.s) : text.s[n] \in pieces

\* C1: a call whose parameters violate the tool's declared schema issues no
\* upstream request and does not end in a success envelope.
C1_InvalidParamsIssueNoRequest ==
  \A i \in Invocations :
    (pc[i] # "idle" /\ ~SchemaOf(tool[i], params[i]))
      => /\ requests[i] = <<>>
         /\ pc[i] # "awaiting"
         /\ (Returned(i) => IsError(i))

\* The raw items of invocation i on which the custom_meta loop ran, each
\* with the item made from it as the envelope's JSON text holds it.
MetaPairs(i) ==
  IF ~Succeeded(i) THEN {}
  ELSE IF tool[i] = "get_woo_product" THEN {<<outcome[i].v, Payload(i)>>}
  ELSE IF tool[i] = "get_woo_product_variations" /\ IsArray(outcome[i].v)
    THEN {<<outcome[i].v.a[n], Payload(i).o[K("variations")].a[n]>> :
            n \in 1..Len(outcome[i].v.a)}
  ELSE {}
\* raw.meta_data is a list of {key, value} entries with string keys.
HasEntryList(raw) ==
  /\ IsArray(Get(raw, K("meta_data")))
  /\ \A n \in 1..Len(Get(raw, K("meta_data")).a) :
       /\ Get(raw, K("meta_data")).a[n].t = "obj"
       /\ Get(Get(raw, K("meta_data")).a[n], K("key")).t = "str"
EntryKey(raw, n) == Get(raw, K("meta_data")).a[n].o[K("key")].s
EntryValue(raw, n) == Get(Get(raw, K("meta_data")).a[n], K("value"))
EntryKeys(raw) == {EntryKey(raw, n) : n \in 1..Len(Get(raw, K("meta_data")).a)}
CustomMeta(out) == out.o[K("custom_meta")].o

\* C2 as stated: the keys of custom_meta are exactly the keys of the
\* meta_data entries that do not start with '_', the empty key included.
C2_ExactlyNonUnderscoreKeys ==
  \A i \in Invocations : \A pair \in MetaPairs(i) :
    HasEntryList(pair[1])
      => DOMAIN CustomMeta(pair[2])
           = {k \in EntryKeys(pair[1]) : ~StartsWith(k, "_")}

\* C2 amended: the keys of custom_meta are exactly the keys of the
\* meta_data entries that are not empty and do not start with '_'.
C2_ExactlyNonEmptyNonUnderscoreKeys ==
  \A i \in Invocations : \A pair \in MetaPairs(i) :
    HasEntryList(pair[1])
      => DOMAIN CustomMeta(pair[2])
           = {k \in EntryKeys(pair[1]) : k # <<>> /\ ~StartsWith(k, "_")}

\* A list holding an empty key, an internal key and an ordinary key has
\* been normalized, and only the ordinary key was kept.
C2_Witness ==
  \E i \in Invocations : \E pair \in MetaPairs(i) :
    /\ tool[i] = "get_woo_product_variations"
    /\ HasEntryList(pair[1])
    /\ {<<>>, <<"_", "a">>, <<"a">>} \subseteq EntryKeys(pair[1])
    /\ DOMAIN CustomMeta(pair[2]) = {<<"a">>}

\* C3 as stated: the JSON text of a get_woo_product result holds every
\* field of the projection list.
C3_EveryProjectedFieldPresent ==
  \A i \in Invocations :
    (Succeeded(i) /\ tool[i] = "get_woo_product")
      => \A f \in ProductSummaryFields : K(f) \in DOMAIN Payload(i).o

\* C3 amended: the JSON text always holds custom_meta and acf (null when
\* the upstream acf is absent or falsy); it holds a copied field exactly
\* when the upstream object has it, with the upstream value, images exactly
\* when the upstream images is an array, and meta_data_all exactly when the
\* upstream has meta_data.
C3_FieldsPresentAsUpstream ==
  \A i \in Invocations :
    (Succeeded(i) /\ tool[i] = "get_woo_product")
      => LET up == outcome[i].v
             out == Payload(i).o IN
         /\ DOMAIN out \subseteq {K(f) : f \in ProductSummaryFields}
         /\ K("custom_meta") \in DOMAIN out
         /\ K("acf") \in DOMAIN out
         /\ out[K("acf")] = (IF Truthy(Get(up, K("acf"))) THEN Get(up, K("acf")) ELSE Null)
         /\ \A f \in CopiedFields :
              /\ K(f) \in DOMAIN out <=> K(f) \in DOMAIN up.o
              /\ K(f) \in DOMAIN out => out[K(f)] = up.o[K(f)]
         /\ K("images") \in DOMAIN out <=> IsArray(Get(up, K("images")))
         /\ K("meta_data_all") \in DOMAIN out <=> K("meta_data") \in DOMAIN up.o

\* A product that has an id and no name was normalized: the text holds the
\* id, no name, and acf as null.
C3_Witness ==
  \E i \in Invocations :
    /\ Succeeded(i) /\ tool[i] = "get_woo_product"
    /\ K("id") \in DOMAIN outcome[i].v.o
    /\ K("name") \notin DOMAIN outcome[i].v.o
    /\ K("acf") \notin DOMAIN outcome[i].v.o
    /\ K("id") \in DOMAIN Payload(i).o
    /\ K("name") \notin DOMAIN Payload(i).o
    /\ Payload(i).o[K("acf")] = Null

\* The 404 hints of a handler's family and the hints that name a credential
\* or a role.
NotFoundHints(name) ==
  IF name \in wooCommerceHandlers THEN {WOO_LIST_404, WOO_GET_404}
  ELSE {ACF_GET_404, ACF_UPDATE_404, ACF_OPTIONS_404}
PermissionHints == {WOO_LIST_401, ACF_GET_401_403, ACF_UPDATE_401_403}

\* C4: whatever the handler, an upstream failure with status 404 gives an
\* error envelope whose text holds the family's 404 hint, and one with
\* status 401 or 403 a text that holds the permission hint.
C4_HintForEveryHandler ==
  \A i \in Invocations :
    Returned(i) =>
      /\ UpstreamStatus(i) = Num(404)
           => IsError(i) /\ Contains(Text(i), NotFoundHints(tool[i]))
      /\ UpstreamStatus(i) \in {Num(401), Num(403)}
           => IsError(i) /\ Contains(Text(i), PermissionHints)

\* The list-style handlers and the optional filters each declares.
ListStyle == {"list_woo_products", "get_woo_product_variations", "list_acf_content_fields"}
OptionalFilters(name) ==
  IF name = "list_woo_products"
    THEN {"page", "per_page", "search", "sku", "slug", "status", "category", "tag",
          "type", "featured", "on_sale", "min_price", "max_price", "stock_status",
          "orderby", "order"}
    ELSE {"page", "per_page"}
\* The object holding the filters of F that the caller provided.
Provided(p, F) == Obj([k \in {K(f) : f \in F} \cap DOMAIN p.o |-> p.o[k]])
\* The value sent for a filter that has a default.
Defaulted(p, f, default) == IF Truthy(Get(p, K(f))) THEN Get(p, K(f)) ELSE Num(default)

\* C5 as stated: the query of a list-style request holds exactly the
\* optional filters the caller provided, with their values.
C5_QueryIsProvidedFilters ==
  \A i \in Invocations :
    (Issued(i) /\ tool[i] \in ListStyle)
      => Query(i) = Provided(params[i], OptionalFilters(tool[i]))

\* C5 amended: list_woo_products sends the params object as it is;
\* get_woo_product_variations sends page and per_page exactly when the
\* caller gave a truthy value (so not page 0); list_acf_content_fields
\* always sends both per_page and page, the caller's value when truthy and
\* otherwise 10 and 1.  The last two send no null or undefined value.
C5_QueryPerHandler ==
  \A i \in Invocations :
    (Issued(i) /\ tool[i] \in ListStyle)
      => /\ tool[i] = "list_woo_products" => Query(i) = params[i]
         /\ tool[i] = "get_woo_product_variations"
              => Query(i) = Obj([k \in {j \in DOMAIN Provided(params[i], {"page", "per_page"}).o :
                                          Truthy(params[i].o[j])} |-> params[i].o[k]])
         /\ tool[i] = "list_acf_content_fields"
              => Query(i) = Obj((K("per_page") :> Defaulted(params[i], "per_page", 10))
                                @@ (K("page") :> Defaulted(params[i], "page", 1)))
         /\ tool[i] # "list_woo_products"
              => \A k \in DOMAIN Query(i).o : ~Nullish(Query(i).o[k])

\* list_acf_content_fields was called with no optional filter and its
\* request carries the two defaults.
C5_Witness ==
  \E i \in Invocations :
    /\ Issued(i) /\ tool[i] = "list_acf_content_fields"
    /\ DOMAIN params[i].o = {K("content_type")}
    /\ Query(i) = Obj((K("per_page") :> Num(10)) @@ (K("page") :> Num(1)))

\* C6: no invocation ends by raising an exception to its caller.
C6_NeverRaises == \A i \in Invocations : pc[i] # "raised"

\* C7: a returned envelope has exactly one content entry, of type 'text';
\* isError is true exactly when the handler caught an exception; and an
\* error envelope's text is a message, not the JSON text of a payload.
C7_OneTextEntryErrorIffCaught ==
  \A i \in Invocations :
    Returned(i) =>
      /\ Len(Content(i)) = 1
      /\ Content(i)[1].type = "text"
      /\ IsError(i) <=> caught[i] # None
      /\ IsError(i) => Text(i).t = "str"

\* The upstream answered with data, the normalization threw, and the
\* envelope that came back is an error envelope.
C7_Witness ==
  \E i \in Invocations :
    /\ Returned(i) /\ IsError(i)
    /\ outcome[i] # None /\ outcome[i].ok
    /\ caught[i] = TypeError

ErrorAction(name) ==
  CASE name = "list_woo_products" -> "Error listing WooCommerce products: "
    [] name = "get_woo_product" -> "Error getting WooCommerce product: "
    [] name = "get_woo_product_variations" -> "Error getting product variations: "
    [] name = "search_woo_products" -> "Error searching WooCommerce products: "
    [] name = "get_acf_fields" -> "Error getting ACF fields: "
    [] name = "update_acf_fields" -> "Error updating ACF fields: "
    [] name = "get_acf_options" -> "Error getting ACF options: "
    [] name = "list_acf_content_fields" -> "Error listing ACF content fields: "

\* C9: when the upstream call throws an error with no status, the text is
\* exactly "Error <action>: " followed by the error's message, and isError
\* is true.
C9_NoStatusNoHint ==
  \A i \in Invocations :
    (Finished(i) /\ UpstreamThrewError(i) /\ UpstreamStatus(i) = Undefined)
      => /\ Returned(i)
         /\ IsError(i)
         /\ Text(i) = Str(<<ErrorAction(tool[i])>> \o Get(outcome[i].e, K("message")).s)

\* get_acf_fields, which has hints for 404 and 401/403, met a transport
\* error with no status.
C9_Witness ==
  \E i \in Invocations :
    /\ Returned(i) /\ tool[i] = "get_acf_fields"
    /\ UpstreamThrewError(i) /\ UpstreamStatus(i) = Undefined
    /\ Text(i) = Str(<<"Error getting ACF fields: ", "ECONNREFUSED">>)

\* The entries of raw.meta_data whose key is k.
EntriesWithKey(raw, k) ==
  {n \in 1..Len(Get(raw, K("meta_data")).a) : EntryKey(raw, n) = k}
Last(S) == CHOOSE n \in S : \A m \in S : m <= n

\* C10: custom_meta maps each of its keys to the value of the last
\* meta_data entry with that key.
C10_LastDuplicateWins ==
  \A i \in Invocations : \A pair \in MetaPairs(i) :
    HasEntryList(pair[1])
      => \A k \in DOMAIN CustomMeta(pair[2]) :
           CustomMeta(pair[2])[k] = EntryValue(pair[1], Last(EntriesWithKey(pair[1], k)))

\* A list with the key 'a' twice, first with value x and then with y, was
\* normalized and custom_meta.a is y.
C10_Witness ==
  \E i \in Invocations : \E pair \in MetaPairs(i) :
    /\ tool[i] = "get_woo_product"
    /\ HasEntryList(pair[1])
    /\ \E n, m \in EntriesWithKey(pair[1], <<"a">>) :
         n < m /\ EntryValue(pair[1], n) = S1("x") /\ EntryValue(pair[1], m) = S1("y")
    /\ Last(EntriesWithKey(pair[1], <<"a">>)) = Len(Get(pair[1], K("meta_data")).a)
    /\ CustomMeta(pair[2])[<<"a">>] = S1("y")

\* The list endpoint handlers, the per-item transform of each, and where
\* each puts its collection and its count in the payload.
ListEndpoints ==
  {"list_woo_products", "search_woo_products", "get_woo_product_variations",
   "list_acf_content_fields"}
Transform(name, item) ==
  CASE name = "get_woo_product_variations" -> formatVariation(item)
    [] name = "list_acf_content_fields" -> formatAcfItem(item)
    [] OTHER -> formatProductSummary(item)
CollectionKey(name) ==
  CASE name = "search_woo_products" -> K("products")
    [] name = "get_woo_product_variations" -> K("variations")
    [] name = "list_acf_content_fields" -> K("items")
CountKey(name) ==
  CASE name = "search_woo_products" -> K("results_count")
    [] name = "get_woo_product_variations" -> K("variations_count")
    [] name = "list_acf_content_fields" -> K("items_count")
\* list_woo_products returns the bare collection, with no count.
Collection(i) ==
  IF tool[i] = "list_woo_products" THEN Payload(i)
  ELSE Payload(i).o[CollectionKey(tool[i])]
\* The upstream answered invocation i, a list endpoint, with a response.
ListAnswered(i) ==
  /\ tool[i] \in ListEndpoints
  /\ Finished(i)
  /\ outcome[i] # None
  /\ outcome[i].ok

\* C11: when the upstream response is an array on whose elements the
\* per-item transform is defined, the collection in the success payload has
\* the same length and holds, in the same order, the transform of each
\* element; when the response is not an array, the success payload holds
\* that response unchanged and the count it reports, if any, is 0.
C11_MapsArraysPassesOthers ==
  \A i \in Invocations :
    ListAnswered(i) =>
      LET resp == outcome[i].v IN
      IF IsArray(resp)
        THEN /\ Succeeded(i)
                  <=> \A n \in 1..Len(resp.a) : Transform(tool[i], resp.a[n]).ok
             /\ Succeeded(i)
                  => /\ IsArray(Collection(i))
                     /\ Len(Collection(i).a) = Len(resp.a)
                     /\ \A n \in 1..Len(resp.a) :
                          Collection(i).a[n]
                            = JSONValue(Transform(tool[i], resp.a[n]).v)
        ELSE /\ Succeeded(i)
             /\ Collection(i) = resp
             /\ tool[i] # "list_woo_products"
                  => Payload(i).o[CountKey(tool[i])] = Num(0)

\* search_woo_products was answered with two different products and its
\* payload holds their two summaries in the same order.
C11_Witness ==
  \E i \in Invocations :
    /\ ListAnswered(i) /\ Succeeded(i)
    /\ tool[i] = "search_woo_products"
    /\ IsArray(outcome[i].v) /\ Len(outcome[i].v.a) = 2
    /\ Get(outcome[i].v.a[1], K("id")) = Num(6)
    /\ Get(outcome[i].v.a[2], K("id")) = Num(5)
    /\ Len(Collection(i).a) = 2
    /\ Collection(i).a[1].o[K("id")] = Num(6)
    /\ Collection(i).a[2].o[K("id")] = Num(5)
    /\ DOMAIN Collection(i).a[2].o[K("custom_meta")].o = {<<"volume">>}

\* What a handler called alone with p returns when its request settles
\* with o: Ok(envelope), or a throw when the exception leaves the handler.
SoloResult(name, p, o) ==
  LET r == IF o.ok THEN TryOf(name, p, o.v) ELSE o IN
  IF r.ok THEN r ELSE CatchOf(name, r.e)

SameCall(i, j) ==
  tool[i] = tool[j] /\ params[i] = params[j] /\ outcome[i] = outcome[j]

\* C12: whatever the order in which the invocations were begun and resumed,
\* the request of each is the one its own parameters give, each that has
\* finished ended as the same call made alone would have, and two that
\* were the same call with the same upstream outcome ended alike.
C12_ResultIsOwnCallsResult ==
  \A i \in Invocations :
    /\ pc[i] # "idle" => requests[i] = <<RequestOf(tool[i], params[i])>>
    /\ Finished(i) =>
         LET solo == SoloResult(tool[i], params[i], outcome[i]) IN
         /\ solo.ok => Returned(i) /\ envelope[i] = solo.v
         /\ ~solo.ok => pc[i] = "raised"
         /\ \A j \in Invocations :
              (Finished(j) /\ SameCall(i, j))
                => pc[j] = pc[i] /\ envelope[j] = envelope[i]

\* Two different handlers were in flight at once: invocation 2 was resumed
\* while invocation 1 was still suspended, its request failed, and
\* invocation 1 then returned its data.
C12_Witness ==
  /\ Invocations = {1, 2}
  /\ 1 \in inflight[2]
  /\ tool[1] = "search_woo_products" /\ tool[2] = "get_acf_fields"
  /\ Returned(2) /\ IsError(2)
  /\ Succeeded(1)
  /\ Payload(1).o[K("search_term")] = S1("soap")

====
